---- MODULE Spec2Model ----
(***************************************************************************)
(* Model of src/calculate_iis.py: the Irreversible Impact Score            *)
(* calculator (_normalize_rate, calculate_iis), its formatting helper and  *)
(* the command-line entry point main.                                      *)
(*                                                                         *)
(* Numbers are exact rationals [num, den] in lowest terms with den > 0;    *)
(* Python's float arithmetic is abstracted to exact arithmetic on them.    *)
(* Python's None is the record with den = 0, which is no rational.         *)
(***************************************************************************)
EXTENDS Integers, Sequences, FiniteSets, TLC

VARIABLES entry, args, pc, exc, stdout, stderr, exitcode, escaped, result,
          iis, iis_a, iis_b, ncalls, normCalls

vars == <<entry, args, pc, exc, stdout, stderr, exitcode, escaped, result,
          iis, iis_a, iis_b, ncalls, normCalls>>

----------------------------------------------------------------------------
(* Bounds of the explored input space *)

MaxPrincipal == 3
MaxRateNum == 3

----------------------------------------------------------------------------
(* Exact rational arithmetic standing for Python floats *)

Abs(n) == IF n < 0 THEN -n ELSE n

RECURSIVE GCD(_, _)
GCD(a, b) == IF b = 0 THEN a ELSE GCD(b, a % b)

Rat(n, d) ==
    LET g == GCD(Abs(n), Abs(d))
        s == IF d < 0 THEN -1 ELSE 1
    IN [num |-> (s * n) \div g, den |-> (s * d) \div g]

None == [num |-> 0, den |-> 0]

RLt(a, b) == a.num * b.den < b.num * a.den
RLe(a, b) == a.num * b.den <= b.num * a.den
RDiv(a, b) == Rat(a.num * b.den, a.den * b.num)
RMul(a, b) == Rat(a.num * b.num, a.den * b.den)

Zero == Rat(0, 1)
One == Rat(1, 1)
Hundred == Rat(100, 1)

----------------------------------------------------------------------------
(* Python exception classes and the matching rule of an except clause *)

Parent(cls) ==
    CASE cls = "ValueError" -> "Exception"
      [] cls = "Exception" -> "BaseException"
      [] cls = "SystemExit" -> "BaseException"
      [] OTHER -> "object"

RECURSIVE IsSubclass(_, _)
IsSubclass(cls, base) ==
    IF cls = base THEN TRUE
    ELSE IF cls = "object" THEN FALSE
    ELSE IsSubclass(Parent(cls), base)

CatchesAll(handler, cls) == TRUE

Catches(handler, cls) == IsSubclass(cls, handler)

NoExc == [type |-> "none", msg |-> "", code |-> -1]

----------------------------------------------------------------------------
(* Outcome of a call: a returned value or a raised ValueError *)

Ok(v, n) == [kind |-> "ok", value |-> v, msg |-> "", norm |-> n]
Raise(m, n) == [kind |-> "ValueError", value |-> None, msg |-> m, norm |-> n]
NoResult == [kind |-> "none", value |-> None, msg |-> "", norm |-> {}]

PrincipalMsg == "Principal must be greater than zero."
RateMsg == "Rate must be greater than zero."
NegativeRateMsg == "Rate must be non-negative."
UsageMsg == "Either --examples or both --principal and --rate must be provided."

(* _normalize_rate with the boundary value 1 taken as a percentage *)
_normalize_rate_ge(rate) ==
    IF RLt(rate, Zero) THEN Raise(NegativeRateMsg, {})
    ELSE IF RLe(One, rate) THEN Ok(RDiv(rate, Hundred), {})
    ELSE Ok(rate, {})

(* _normalize_rate scaling by 10 instead of 100 *)
_normalize_rate_ten(rate) ==
    IF RLt(rate, Zero) THEN Raise(NegativeRateMsg, {})
    ELSE IF RLt(One, rate) THEN Ok(RDiv(rate, Rat(10, 1)), {})
    ELSE Ok(rate, {})

_normalize_rate(rate) ==
    IF RLt(rate, Zero) THEN Raise(NegativeRateMsg, {})
    ELSE IF RLt(One, rate) THEN Ok(RDiv(rate, Hundred), {})
    ELSE Ok(rate, {})

(* The normalization branch of calculate_iis; norm records every rate      *)
(* handed to _normalize_rate.                                              *)
NormalizeBy(rate, rate_is_percent) ==
    IF rate_is_percent = "True" THEN Ok(RDiv(rate, Hundred), {})
    ELSE IF rate_is_percent = "False" THEN Ok(rate, {})
    ELSE LET n == _normalize_rate(rate)
         IN [n EXCEPT !.norm = {rate}]

Score(r, principal) ==
    IF r.kind = "ok"
    THEN Ok(RMul(RDiv(r.value, principal), Hundred), r.norm)
    ELSE r

(* calculate_iis accepting a rate of zero *)
calculate_iis_rate_lt(principal, rate, rate_is_percent) ==
    IF RLe(principal, Zero) THEN Raise(PrincipalMsg, {})
    ELSE IF RLt(rate, Zero) THEN Raise(RateMsg, {})
    ELSE Score(NormalizeBy(rate, rate_is_percent), principal)

(* calculate_iis validating the rate before the principal *)
calculate_iis_rate_first(principal, rate, rate_is_percent) ==
    IF RLe(rate, Zero) THEN Raise(RateMsg, {})
    ELSE IF RLe(principal, Zero) THEN Raise(PrincipalMsg, {})
    ELSE Score(NormalizeBy(rate, rate_is_percent), principal)

(* calculate_iis ignoring an explicit rate_is_percent=True *)
calculate_iis_no_percent(principal, rate, rate_is_percent) ==
    IF RLe(principal, Zero) THEN Raise(PrincipalMsg, {})
    ELSE IF RLe(rate, Zero) THEN Raise(RateMsg, {})
    ELSE Score(NormalizeBy(rate,
                 IF rate_is_percent = "True" THEN "False" ELSE rate_is_percent),
               principal)

calculate_iis(principal, rate, rate_is_percent) ==
    IF RLe(principal, Zero) THEN Raise(PrincipalMsg, {})
    ELSE IF RLe(rate, Zero) THEN Raise(RateMsg, {})
    ELSE Score(NormalizeBy(rate, rate_is_percent), principal)

----------------------------------------------------------------------------
(* Formatting *)

RECURSIVE Pow10(_)
Pow10(k) == IF k = 0 THEN 1 ELSE 10 * Pow10(k - 1)

(* nearest integer to n/d (d > 0), ties to even *)
RoundHalfEven(n, d) ==
    LET q == n \div d
        rem == n - q * d
    IN IF 2 * rem < d THEN q
       ELSE IF 2 * rem > d THEN q + 1
       ELSE IF q % 2 = 0 THEN q ELSE q + 1

(* format spec .<digits>f: the value as a count of 10^-digits units *)
FormatFixed(x, digits) ==
    LET u == RoundHalfEven(x.num * Pow10(digits), x.den)
    IN [neg |-> u < 0, units |-> Abs(u), digits |-> digits]

RECURSIVE Groups(_)
Groups(n) == IF n < 1000 THEN <<n>> ELSE Append(Groups(n \div 1000), n % 1000)

(* format spec ,.2f behind a dollar sign: comma-separated groups and cents *)
_format_currency(amount) ==
    LET f == FormatFixed(amount, 2)
    IN [neg |-> f.neg, groups |-> Groups(f.units \div 100), cents |-> f.units % 100]

----------------------------------------------------------------------------
(* The command line: parsed arguments and the flow of main *)

PyBool(b) == IF b THEN "True" ELSE "False"

(* main asking for both arguments before looking at --examples *)
Branch_args_first(a) ==
    IF a.principal = None \/ a.rate = None THEN "usage"
    ELSE IF a.examples THEN "examples"
    ELSE "compute"

Branch(a) ==
    IF a.examples THEN "examples"
    ELSE IF a.principal = None \/ a.rate = None THEN "usage"
    ELSE "compute"

debt_a_principal == Rat(25000, 1)
debt_a_rate == Rat(45, 1000)
debt_b_principal == Rat(2500, 1)
debt_b_rate == Rat(12, 100)

(* the decision with the comparison reversed *)
Decision_reversed(a, b) == IF RLt(a, b) THEN "A" ELSE "B"

Decision(a, b) == IF RLt(b, a) THEN "A" ELSE "B"

Banner(t) == [kind |-> "banner", text |-> t]

ExampleLine(label, principal, rate, score) ==
    [kind |-> "result", label |-> label, P |-> _format_currency(principal),
     R |-> FormatFixed(RMul(rate, Hundred), 2), pct |-> TRUE,
     IIS |-> FormatFixed(score, 6)]

ResultLine(principal, rate, percent, score) ==
    [kind |-> "result", label |-> "Debt", P |-> _format_currency(principal),
     R |-> rate, pct |-> percent, IIS |-> FormatFixed(score, 6)]

DecisionLine(d) == [kind |-> "decision", debt |-> d]

(* the ValueError handler returning 1 *)
OnValueError_one(msg) == [line |-> [kind |-> "error", msg |-> msg], code |-> 1]

OnValueError(msg) == [line |-> [kind |-> "error", msg |-> msg], code |-> 2]

UsageLines == <<[kind |-> "usage", msg |-> ""], [kind |-> "usage", msg |-> UsageMsg]>>

----------------------------------------------------------------------------
(* Inputs *)

Principals == {Rat(n, 1) : n \in -1..MaxPrincipal} \cup {Rat(100, 1)}

Rates == {Rat(n, d) : n \in -1..MaxRateNum, d \in {1, 2, 100}}
            \cup {Rat(8, 1), Rat(8, 100)}

Flags == {"True", "False", "None"}

MainArgs ==
    [principal : Principals \cup {None}, rate : Rates \cup {None},
     percent : BOOLEAN, examples : BOOLEAN, rate_is_percent : {"None"}]

CallArgs ==
    [principal : Principals, rate : Rates,
     percent : {FALSE}, examples : {FALSE}, rate_is_percent : Flags]

NormalizeArgs ==
    [principal : {None}, rate : Rates,
     percent : {FALSE}, examples : {FALSE}, rate_is_percent : {"None"}]

Init ==
    /\ entry \in {"main", "calculate_iis", "_normalize_rate"}
    /\ args \in (CASE entry = "main" -> MainArgs
                   [] entry = "calculate_iis" -> CallArgs
                   [] OTHER -> NormalizeArgs)
    /\ pc = "start"
    /\ exc = NoExc
    /\ stdout = <<>>
    /\ stderr = <<>>
    /\ exitcode = -1
    /\ escaped = "none"
    /\ result = NoResult
    /\ iis = None
    /\ iis_a = None
    /\ iis_b = None
    /\ ncalls = 0
    /\ normCalls = {}

----------------------------------------------------------------------------
(* main *)

MainExamples ==
    /\ entry = "main" /\ pc = "start"
    /\ Branch(args) = "examples"
    /\ LET a == calculate_iis(debt_a_principal, debt_a_rate, "None")
           b == calculate_iis(debt_b_principal, debt_b_rate, "None")
       IN IF a.kind = "ValueError"
          THEN /\ exc' = [type |-> "ValueError", msg |-> a.msg, code |-> -1]
               /\ pc' = "raised"
               /\ ncalls' = ncalls + 1
               /\ normCalls' = normCalls \cup a.norm
               /\ UNCHANGED <<stdout, exitcode, iis_a, iis_b>>
          ELSE IF b.kind = "ValueError"
          THEN /\ exc' = [type |-> "ValueError", msg |-> b.msg, code |-> -1]
               /\ pc' = "raised"
               /\ ncalls' = ncalls + 2
               /\ normCalls' = normCalls \cup a.norm \cup b.norm
               /\ iis_a' = a.value
               /\ UNCHANGED <<stdout, exitcode, iis_b>>
          ELSE /\ iis_a' = a.value
               /\ iis_b' = b.value
               /\ ncalls' = ncalls + 2
               /\ normCalls' = normCalls \cup a.norm \cup b.norm
               /\ stdout' = stdout \o
                    << Banner("--- IIS CALCULATION PROTOCOL ENGAGED (EXAMPLES) ---"),
                       ExampleLine("Debt A", debt_a_principal, debt_a_rate, a.value),
                       ExampleLine("Debt B", debt_b_principal, debt_b_rate, b.value),
                       DecisionLine(Decision(a.value, b.value)) >>
               /\ exitcode' = 0
               /\ pc' = "done"
               /\ UNCHANGED exc
    /\ UNCHANGED <<entry, args, stderr, escaped, result, iis>>

MainUsageError ==
    /\ entry = "main" /\ pc = "start"
    /\ Branch(args) = "usage"
    /\ stderr' = stderr \o UsageLines
    /\ exc' = [type |-> "SystemExit", msg |-> UsageMsg, code |-> 2]
    /\ pc' = "raised"
    /\ UNCHANGED <<entry, args, stdout, exitcode, escaped, result,
                   iis, iis_a, iis_b, ncalls, normCalls>>

MainCalculate ==
    /\ entry = "main" /\ pc = "start"
    /\ Branch(args) = "compute"
    /\ LET r == calculate_iis(args.principal, args.rate, PyBool(args.percent))
       IN /\ ncalls' = ncalls + 1
          /\ normCalls' = normCalls \cup r.norm
          /\ IF r.kind = "ValueError"
             THEN /\ exc' = [type |-> "ValueError", msg |-> r.msg, code |-> -1]
                  /\ pc' = "raised"
                  /\ UNCHANGED <<stdout, exitcode, iis>>
             ELSE /\ iis' = r.value
                  /\ stdout' = stdout \o
                       << Banner("--- IIS CALCULATION PROTOCOL ENGAGED ---"),
                          ResultLine(args.principal, args.rate, args.percent, r.value) >>
                  /\ exitcode' = 0
                  /\ pc' = "done"
                  /\ UNCHANGED exc
    /\ UNCHANGED <<entry, args, stderr, escaped, result, iis_a, iis_b>>

MainExcept ==
    /\ entry = "main" /\ pc = "raised"
    /\ Catches("ValueError", exc.type)
    /\ LET h == OnValueError(exc.msg)
       IN /\ stderr' = Append(stderr, h.line)
          /\ exitcode' = h.code
    /\ exc' = NoExc
    /\ pc' = "done"
    /\ UNCHANGED <<entry, args, stdout, escaped, result,
                   iis, iis_a, iis_b, ncalls, normCalls>>

MainPropagate ==
    /\ entry = "main" /\ pc = "raised"
    /\ ~Catches("ValueError", exc.type)
    /\ escaped' = exc.type
    /\ exitcode' = IF exc.type = "SystemExit" THEN exc.code ELSE 1
    /\ pc' = "done"
    /\ UNCHANGED <<entry, args, exc, stdout, stderr, result,
                   iis, iis_a, iis_b, ncalls, normCalls>>

----------------------------------------------------------------------------
(* Library calls *)

CallCalculateIis ==
    /\ entry = "calculate_iis" /\ pc = "start"
    /\ LET r == calculate_iis(args.principal, args.rate, args.rate_is_percent)
       IN /\ result' = r
          /\ normCalls' = normCalls \cup r.norm
    /\ ncalls' = ncalls + 1
    /\ pc' = "done"
    /\ UNCHANGED <<entry, args, exc, stdout, stderr, exitcode, escaped,
                   iis, iis_a, iis_b>>

CallNormalizeRate ==
    /\ entry = "_normalize_rate" /\ pc = "start"
    /\ result' = _normalize_rate(args.rate)
    /\ normCalls' = normCalls \cup {args.rate}
    /\ pc' = "done"
    /\ UNCHANGED <<entry, args, exc, stdout, stderr, exitcode, escaped,
                   iis, iis_a, iis_b, ncalls>>

Next ==
    \/ MainExamples
    \/ MainUsageError
    \/ MainCalculate
    \/ MainExcept
    \/ MainPropagate
    \/ CallCalculateIis
    \/ CallNormalizeRate

Spec == Init /\ [][Next]_vars

----------------------------------------------------------------------------
(* Properties *)

Done(e) == entry = e /\ pc = "done"

Positive(x) == x # None /\ RLt(Zero, x)

Supplied == args.principal # None /\ args.rate # None

ErrorLines == {i \in 1..Len(stderr) : stderr[i].kind = "error"}

ResultLines == {i \in 1..Len(stdout) : stdout[i].kind = "result"}

(* C1: calculate_iis raises ValueError exactly when principal <= 0 or      *)
(* rate <= 0, whatever rate_is_percent is; otherwise it returns a score.   *)
C1_ValidationIff ==
    Done("calculate_iis") =>
        LET invalid == RLe(args.principal, Zero) \/ RLe(args.rate, Zero)
        IN /\ (result.kind = "ValueError") <=> invalid
           /\ ~invalid => (result.kind = "ok" /\ result.value # None)

C1_Witness ==
    /\ Done("calculate_iis")
    /\ Positive(args.principal) /\ args.rate = Zero
    /\ args.rate_is_percent = "False"
    /\ result.kind = "ValueError"

(* C2: for principal > 0 and rate > 0 the score is (r / principal) * 100   *)
(* with r = rate/100 under the flag True, r = rate under the flag False,   *)
(* and under no flag r = rate/100 if rate > 1, r = rate if rate <= 1.      *)
C2_Score ==
    (Done("calculate_iis") /\ Positive(args.principal) /\ Positive(args.rate)) =>
        LET f == args.rate_is_percent
            r == IF f = "True" THEN RDiv(args.rate, Hundred)
                 ELSE IF f = "False" THEN args.rate
                 ELSE IF RLt(One, args.rate) THEN RDiv(args.rate, Hundred)
                 ELSE args.rate
        IN /\ result.kind = "ok"
           /\ result.value = RMul(RDiv(r, args.principal), Hundred)

C2_Witness ==
    /\ Done("calculate_iis")
    /\ args.principal = Rat(2, 1) /\ args.rate = Rat(1, 2)
    /\ args.rate_is_percent = "True"
    /\ result.value = Rat(1, 4)

(* C3: for principal > 0 and rate > 1, the score under no flag equals the  *)
(* score of rate/100 under the flag False and the score of rate under the  *)
(* flag True; calculate_iis(100, 8) = calculate_iis(100, 0.08, False).     *)
C3_HeuristicEquivalence ==
    (/\ Done("calculate_iis") /\ args.rate_is_percent = "None"
     /\ Positive(args.principal) /\ RLt(One, args.rate)) =>
        LET d == calculate_iis(args.principal, RDiv(args.rate, Hundred), "False")
            p == calculate_iis(args.principal, args.rate, "True")
        IN /\ result.kind = "ok" /\ d.kind = "ok" /\ p.kind = "ok"
           /\ result.value = d.value
           /\ result.value = p.value
           /\ (args.principal = Hundred /\ args.rate = Rat(8, 1)) =>
                 result.value = calculate_iis(Hundred, Rat(8, 100), "False").value

C3_Witness ==
    /\ Done("calculate_iis") /\ args.rate_is_percent = "None"
    /\ args.principal = Hundred /\ args.rate = Rat(8, 1)
    /\ result.value = Rat(8, 100)

(* C4: without --examples and without --percent, for principal > 0 and     *)
(* rate > 1, main computes the score of the heuristic, the one computed    *)
(* with --percent.                                                         *)
C4_CliHeuristic ==
    (/\ Done("main") /\ ~args.examples /\ ~args.percent
     /\ Positive(args.principal) /\ args.rate # None /\ RLt(One, args.rate)) =>
        /\ iis = calculate_iis(args.principal, args.rate, "None").value
        /\ iis = calculate_iis(args.principal, args.rate, "True").value

(* C5: without --examples, when --principal or --rate is missing, main     *)
(* ends in a usage error with a non-zero exit status, calculate_iis is     *)
(* never called, nothing is written to standard output, and the exit is    *)
(* not taken by the ValueError handler.                                    *)
C5_UsageError ==
    (entry = "main" /\ ~args.examples /\ ~Supplied) =>
        /\ ncalls = 0
        /\ stdout = <<>>
        /\ ErrorLines = {}
        /\ pc = "done" =>
              /\ exitcode > 0
              /\ escaped = "SystemExit"
              /\ stderr = UsageLines

C5_Witness ==
    /\ Done("main") /\ ~args.examples
    /\ args.principal # None /\ args.rate = None
    /\ exitcode = 2 /\ escaped = "SystemExit"

(* C6: without --examples and with both arguments, main exits with 0 after *)
(* one result line on standard output if principal > 0 and rate > 0, and   *)
(* otherwise with 2 after "Error: <message>" on standard error and nothing *)
(* on standard output; nothing escapes main.                               *)
C6_ExitCodes ==
    (Done("main") /\ ~args.examples /\ Supplied) =>
        /\ escaped = "none"
        /\ exitcode \in {0, 2}
        /\ IF Positive(args.principal) /\ Positive(args.rate)
           THEN /\ exitcode = 0
                /\ Cardinality(ResultLines) = 1
                /\ stderr = <<>>
           ELSE /\ exitcode = 2
                /\ stdout = <<>>
                /\ Len(stderr) = 1
                /\ stderr[1].kind = "error"
                /\ stderr[1].msg \in {PrincipalMsg, RateMsg}

C6_Witness ==
    /\ Done("main") /\ ~args.examples /\ Supplied
    /\ Positive(args.principal) /\ ~Positive(args.rate)
    /\ exitcode = 2
    /\ stderr = <<[kind |-> "error", msg |-> RateMsg]>>

(* C7: with --examples, main scores debt A (25000 at 0.045) as 0.00018 and *)
(* debt B (2500 at 0.12) as 0.0048, prints both, names the debt with the   *)
(* higher score, which is B, in the decision line, and exits with 0.       *)
C7_Examples ==
    (Done("main") /\ args.examples) =>
        /\ iis_a = Rat(18, 100000)
        /\ iis_b = Rat(48, 10000)
        /\ ncalls = 2
        /\ Len(stdout) = 4
        /\ stdout[2].kind = "result" /\ stdout[2].label = "Debt A"
        /\ stdout[2].IIS = [neg |-> FALSE, units |-> 180, digits |-> 6]
        /\ stdout[3].kind = "result" /\ stdout[3].label = "Debt B"
        /\ stdout[3].IIS = [neg |-> FALSE, units |-> 4800, digits |-> 6]
        /\ stdout[4].kind = "decision"
        /\ stdout[4].debt = (IF RLt(iis_b, iis_a) THEN "A" ELSE "B")
        /\ stdout[4].debt = "B"
        /\ exitcode = 0

C7_Witness ==
    /\ Done("main") /\ args.examples
    /\ iis_a = Rat(18, 100000) /\ iis_b = Rat(48, 10000)
    /\ stdout[4] = [kind |-> "decision", debt |-> "B"]

(* C8: under no flag a rate of exactly 1 is taken as decimal: the score is *)
(* 100/principal, the score under the flag False, and differs from the     *)
(* score under the flag True, which is 1/principal.                        *)
C8_BoundaryOne ==
    (/\ Done("calculate_iis") /\ args.rate_is_percent = "None"
     /\ Positive(args.principal) /\ args.rate = One) =>
        LET d == calculate_iis(args.principal, One, "False")
            p == calculate_iis(args.principal, One, "True")
        IN /\ result.kind = "ok"
           /\ result.value = RDiv(Hundred, args.principal)
           /\ result.value = d.value
           /\ p.value = RDiv(One, args.principal)
           /\ result.value # p.value

C8_Witness ==
    /\ Done("calculate_iis") /\ args.rate_is_percent = "None"
    /\ args.principal = Rat(2, 1) /\ args.rate = One
    /\ result.value = Rat(50, 1)

(* C9: through calculate_iis and main, _normalize_rate only receives rates *)
(* > 0 and its negative-rate error never appears; an error of              *)
(* calculate_iis comes from its own validation before normalization, the   *)
(* principal error first; on its own _normalize_rate rejects rate < 0 and  *)
(* returns 0 for rate = 0.                                                 *)
C9_NormalizeGuarded ==
    /\ entry \in {"main", "calculate_iis"} =>
          /\ \A r \in normCalls : RLt(Zero, r)
          /\ result.msg # NegativeRateMsg
          /\ exc.msg # NegativeRateMsg
          /\ \A i \in 1..Len(stderr) : stderr[i].msg # NegativeRateMsg
    /\ (Done("calculate_iis") /\ result.kind = "ValueError") =>
          /\ normCalls = {}
          /\ result.msg \in {PrincipalMsg, RateMsg}
          /\ RLe(args.principal, Zero) => result.msg = PrincipalMsg
    /\ Done("_normalize_rate") =>
          /\ (result.kind = "ValueError") <=> RLt(args.rate, Zero)
          /\ result.kind = "ValueError" => result.msg = NegativeRateMsg
          /\ args.rate = Zero => (result.kind = "ok" /\ result.value = Zero)

C9_Witness ==
    /\ Done("calculate_iis")
    /\ RLt(args.principal, Zero) /\ RLt(args.rate, Zero)
    /\ args.rate_is_percent = "None"
    /\ result.kind = "ValueError" /\ result.msg = PrincipalMsg
    /\ normCalls = {}

ExamplesTranscript ==
    << [kind |-> "banner", text |-> "--- IIS CALCULATION PROTOCOL ENGAGED (EXAMPLES) ---"],
       [kind |-> "result", label |-> "Debt A",
        P |-> [neg |-> FALSE, groups |-> <<25, 0>>, cents |-> 0],
        R |-> [neg |-> FALSE, units |-> 450, digits |-> 2], pct |-> TRUE,
        IIS |-> [neg |-> FALSE, units |-> 180, digits |-> 6]],
       [kind |-> "result", label |-> "Debt B",
        P |-> [neg |-> FALSE, groups |-> <<2, 500>>, cents |-> 0],
        R |-> [neg |-> FALSE, units |-> 1200, digits |-> 2], pct |-> TRUE,
        IIS |-> [neg |-> FALSE, units |-> 4800, digits |-> 6]],
       [kind |-> "decision", debt |-> "B"] >>

(* C10: with --examples the output and the exit code are the same for all  *)
(* values of --principal, --rate and --percent, missing and non-positive   *)
(* ones included, and no validation or usage error is reported.            *)
C10_ExamplesIndependent ==
    (entry = "main" /\ args.examples) =>
        /\ stderr = <<>>
        /\ escaped = "none"
        /\ exc = NoExc
        /\ pc = "done" => (stdout = ExamplesTranscript /\ exitcode = 0)

C10_Witness ==
    /\ Done("main") /\ args.examples
    /\ args.principal = None /\ args.rate = Rat(-1, 1) /\ args.percent
    /\ stdout = ExamplesTranscript /\ exitcode = 0

====
